---------------------------- MODULE Spec2Model ----------------------------
(***************************************************************************)
(* Model of src/road/spatialgrange.cc: the benchmark driver of the group   *)
(* range search.  main() loads the objects, computes the diameter once,    *)
(* then runs numquery queries (reset, generate sources, search, clean up,  *)
(* measure the LRU hits of the access history, aggregate) and prints the   *)
(* averaged report.                                                        *)
(*                                                                         *)
(* Graph, SegFMemory, GraphSearch::diameter, groupRangeSearch and          *)
(* IOMeasure::pagelru are declared in headers that are not part of the     *)
(* source at hand; they are modelled from their contracts in the           *)
(* specification (sections 4.1, 4.2 and 6) and marked so in the map.       *)
(***************************************************************************)
EXTENDS Integers, Sequences, FiniteSets, TLC

(***************************************************************************)
(* Bounds of the model.                                                    *)
(***************************************************************************)
MaxQueries == 2      \* -q ranges over 0..MaxQueries
MaxNodes == 2        \* the graph's node count ranges over 0..MaxNodes
DrawCap == 3         \* the draw counter of one rejection loop saturates here
SmallPages == 3      \* page alphabet of the exhaustive traces
SmallLen == 6        \* length of the exhaustive traces
MaxPages == 51       \* distinct pages of the deep traces
MaxReuse == 1        \* re-references in one deep trace
MaxTokens == 4       \* tokens of the object file
MaxLoaded == 3       \* entries of the object index that are kept

(***************************************************************************)
(* Program constants.                                                      *)
(***************************************************************************)
\* rand()%1000 at line 163
RandMod == 1000
\* capacity of src[] and rng[]; MAXQUERY is defined in a header outside the
\* source at hand ("a configured maximum"), the model takes a small value
MAXQUERY == 2
\* the cache sizes passed to IOMeasure::pagelru, lines 206-211
Capacities == {1, 10, 20, 30, 40, 50}

NumQueries == 0..MaxQueries
NumSrcs == 0..(MAXQUERY + 1)
NodeCnts == 0..MaxNodes
\* node counts handed to the rejection loop taken on its own
AnyNodeCnts == (-MaxNodes)..MaxNodes
Ranges == {2}
Diameters == {3, 5}
\* what one search may record and return: the pages it touches, the number
\* of result entries, its node and its edge accesses
SearchOutcomes ==
    {[touched |-> <<>>, results |-> 0, nodes |-> 0, edges |-> 0],
     [touched |-> <<1, 1>>, results |-> 1, nodes |-> 2, edges |-> 0],
     [touched |-> <<1, 2, 1>>, results |-> 2, nodes |-> 1, edges |-> 3]}
Pages == 1..SmallPages

VARIABLES
    pc,              \* position of main()
    numquery,        \* line 143
    numsrc,          \* line 144
    nodecnt,         \* line 142
    verbose,         \* line 80
    range,           \* line 145
    diameter,        \* line 141
    diamaccess,      \* nodeaccess, edgeaccess of line 140 (outer scope)
    history,         \* segmem.m_history: the access trace
    i,               \* loop counter of line 147
    j,               \* loop counter of line 161
    draws,           \* draws made so far by the while of line 163 (saturating)
    src,             \* entries of src[] written so far (in bounds)
    rng,             \* entries of rng[] written so far (in bounds)
    result,          \* result.size()
    nodeaccess,      \* line 150 (inner scope)
    edgeaccess,      \* line 151
    rescnt,          \* line 152
    lru,             \* lru1 .. lru50 of lines 206-211
    totals,          \* resultsize, totalnodeaccess, totaledgeaccess, totallru*
    searchCalls,     \* number of calls of groupRangeSearch so far
    report,          \* the record printed by lines 229-243
    lastpos,         \* estimator: latest position of every page of the trace
    caches,          \* reference: one explicit LRU cache per capacity
    refhits,         \* reference: the hits of each of these caches
    touched,         \* history variable: the pages the query's search touched
    expected,        \* history variable: sums of what the searches returned
    passes,          \* calls of pagelru, each a pass over the history, so far
                     \* in this query
    argv,            \* the flags on the command line
    fobj,            \* the object file and its input stream
    smap             \* the entries of the spatial object index, in order

vars == <<pc, numquery, numsrc, nodecnt, verbose, range, diameter,
          diamaccess, history, i, j,
          draws, src, rng, result, nodeaccess, edgeaccess, rescnt, lru, totals,
          searchCalls, report, lastpos, caches, refhits, touched,
          expected, passes, argv, fobj, smap>>

config == <<numquery, numsrc, nodecnt, verbose, range>>
replay == <<lastpos, caches, refhits>>
ghost == <<touched, expected, passes>>
startup == <<argv, fobj, smap>>
query == <<j, draws, src, rng, result, nodeaccess, edgeaccess, rescnt, lru>>

Min(a, b) == IF a < b THEN a ELSE b


(***************************************************************************)
(* IOMeasure::pagelru(history, PAGESIZE, capacity): the number of LRU hits *)
(* of the access history for a cache of `capacity` pages, by stack         *)
(* distance (specification, section 4.2).  The history is taken as the     *)
(* sequence of page ids it maps to.  The estimator keeps, per page seen,   *)
(* the position of its most recent occurrence.                             *)
(***************************************************************************)
NoPages == [q \in {} |-> 0]

\* the page has a prior occurrence
Seen(last, p) == p \in DOMAIN last

\* stack distance: the distinct pages referenced since the previous
\* occurrence of p, that is the pages whose latest occurrence is later
StackDistance(last, p) ==
    Cardinality({q \in DOMAIN last : last[q] > last[p]})

\* a reference whose stack distance equals the capacity counted as a hit
IsHitInclusive(last, p, c) ==
    Seen(last, p) /\ StackDistance(last, p) <= c

\* a first occurrence counted as a hit
IsHitCold(last, p, c) ==
    ~Seen(last, p) \/ StackDistance(last, p) < c

\* a first occurrence is a miss; otherwise a hit iff d < c
IsHit(last, p, c) ==
    Seen(last, p) /\ StackDistance(last, p) < c

\* the position of a page already seen is left at its first occurrence
RecordFirst(last, p, t) ==
    [q \in DOMAIN last \cup {p} |-> IF q \in DOMAIN last THEN last[q] ELSE t]

\* position t becomes the most recent occurrence of p
Record(last, p, t) ==
    [q \in DOMAIN last \cup {p} |-> IF q = p THEN t ELSE last[q]]

RECURSIVE LastAfter(_, _)
LastAfter(h, n) ==
    IF n = 0 THEN NoPages ELSE Record(LastAfter(h, n - 1), h[n], n)

pagelru(h, c) ==
    Cardinality({t \in 1..Len(h) : IsHit(LastAfter(h, t - 1), h[t], c)})

(***************************************************************************)
(* Reference: an explicit LRU cache of capacity c, most recently used page *)
(* first; a reference is a hit iff the page is in the cache.               *)
(***************************************************************************)
InCache(cache, p) == \E k \in 1..Len(cache) : cache[k] = p

LRUTouch(cache, p, c) ==
    LET moved == <<p>> \o SelectSeq(cache, LAMBDA q : q # p)
    IN  IF Len(moved) > c THEN SubSeq(moved, 1, c) ELSE moved

(***************************************************************************)
(* The source draw of line 163.                                            *)
(***************************************************************************)
\* (int) conversion: truncation toward zero
Trunc(x, d) == IF x >= 0 THEN x \div d ELSE -((-x) \div d)

\* (int)((rand()%1000 / 1000.0f) * nodecnt) for rand()%1000 = k, the product
\* taken exactly.  Whatever the rounding of the float product, the draw is a
\* function of k, and k has RandMod values.
Draw(k, n) == Trunc(k * n, RandMod)

\* the while condition of line 163: the draw is repeated while it holds
Rejected(v, n) == v > n

(***************************************************************************)
(* The averages of the report, lines 233-242.  A value is a record: kind   *)
(* "num" with quotient q and remainder r of the division by numquery,      *)
(* "nan" for the float division 0/0, "undef" for the value an integer      *)
(* division by zero leaves when it does not trap.                          *)
(***************************************************************************)
Unset == [kind |-> "unset", q |-> 0, r |-> 0]
NaN == [kind |-> "nan", q |-> 0, r |-> 0]
Undef == [kind |-> "undef", q |-> 0, r |-> 0]
Num(a, b) == [kind |-> "num", q |-> a, r |-> b]

\* total*1.0/numquery and totaltime/numquery: floating point division
FloatAvg(total, n) ==
    IF n = 0 THEN NaN ELSE Num(total \div n, total % n)

\* totallru/numquery: integer division, the fraction is dropped
IntAvg(total, n) ==
    IF n = 0 THEN Undef ELSE Num(total \div n, 0)

ZeroTotals ==
    [res |-> 0, node |-> 0, edge |-> 0, lru |-> [c \in Capacities |-> 0]]

NoReport ==
    [qtime |-> Unset, res |-> Unset, node |-> Unset, edge |-> Unset,
     lru |-> [c \in Capacities |-> Unset]]

NoLru == [c \in Capacities |-> 0]

(***************************************************************************)
(* The command line (lines 64-80) and the object file (lines 98-115).      *)
(* A file is its whitespace-separated tokens, each an integer or a word    *)
(* that is no integer, and whether whitespace follows the last token.      *)
(***************************************************************************)
AllFlags == {"-i", "-o", "-q", "-s", "-r"}

\* no argument at all, every flag, -i missing, -o missing, only -v
Argvs == {{}, AllFlags, AllFlags \ {"-i"}, AllFlags \ {"-o"}, {"-v"}}

FileTokens ==
    {[num |-> TRUE, val |-> 3], [num |-> TRUE, val |-> 7],
     [num |-> TRUE, val |-> 101], [num |-> FALSE, val |-> 0]}

Files ==
    [tokens : UNION {[1..m -> FileTokens] : m \in 0..MaxTokens},
     trailing : BOOLEAN]

\* the node ids of the graph, and the coordinates Graph::getNode returns
GraphNodeIds == {0, 3, 7}
NodeX(n) == 2 * n
NodeY(n) == 2 * n + 1

\* what an int that was never assigned may hold
GarbageInts == {0, 9}

\* the stream on a file: pos tokens are consumed, eofbit, failbit
Stream(file) ==
    [tokens |-> file.tokens, trailing |-> file.trailing, pos |-> 0,
     eof |-> FALSE, fail |-> FALSE]

NoStream ==
    [tokens |-> <<>>, trailing |-> FALSE, pos |-> 0, eof |-> TRUE,
     fail |-> TRUE]

(***************************************************************************)
(* fobj >> x, for an x declared without a value: the possible outcomes,    *)
(* each the stream afterwards and the value x holds.  A stream that is not *)
(* good sets failbit and stores nothing.  Reaching the end while skipping  *)
(* whitespace sets eofbit and failbit and stores nothing.  A word that is  *)
(* no integer sets failbit and stores 0 or nothing (the language version   *)
(* decides).  An integer is stored; eofbit is set when the end of the file *)
(* follows its last digit.                                                 *)
(***************************************************************************)
Extract(f) ==
    IF f.eof \/ f.fail
    THEN {[f |-> [f EXCEPT !.fail = TRUE], val |-> g] : g \in GarbageInts}
    ELSE IF f.pos = Len(f.tokens)
    THEN {[f |-> [f EXCEPT !.eof = TRUE, !.fail = TRUE], val |-> g] :
             g \in GarbageInts}
    ELSE IF ~f.tokens[f.pos + 1].num
    THEN {[f |-> [f EXCEPT !.fail = TRUE], val |-> g] : g \in GarbageInts}
    ELSE {[f |-> [f EXCEPT !.pos = f.pos + 1,
                           !.eof = (f.pos + 1 = Len(f.tokens)
                                    /\ ~f.trailing)],
           val |-> f.tokens[f.pos + 1].val]}

\* smap.addObject(objid, nodeid, x, y), line 113; of an index that grows
\* beyond MaxLoaded entries the latest MaxLoaded are kept
AddObject(m, oid, nid, x, y) ==
    LET added == Append(m, [oid |-> oid, nid |-> nid, x |-> x, y |-> y])
    IN  IF Len(added) > MaxLoaded THEN Tail(added) ELSE added

(***************************************************************************)
(* Lines 64-80: the help message is printed, and main returns -1, only     *)
(* when there is no argument at all; a flag that is missing reads as its   *)
(* default.                                                                *)
(***************************************************************************)
ParseArgs ==
    /\ pc = "start"
    /\ pc' = IF argv = {} THEN "usage" ELSE "openidx"
    /\ UNCHANGED <<config, startup, replay, ghost, diameter, diamaccess,
                   history, i, query, totals, searchCalls, report>>

(***************************************************************************)
(* Lines 85-89: the graph index is opened; opening a path that cannot be   *)
(* read fails (specification, section 6).                                  *)
(***************************************************************************)
OpenIndex ==
    /\ pc = "openidx"
    /\ pc' = IF "-i" \in argv THEN "openobj" ELSE "failed"
    /\ UNCHANGED <<config, startup, replay, ghost, diameter, diamaccess,
                   history, i, query, totals, searchCalls, report>>

(***************************************************************************)
(* Lines 98-102: the object file is opened; without -o the name is empty,  *)
(* the open fails and sets failbit.                                        *)
(***************************************************************************)
OpenObjects ==
    /\ pc = "openobj"
    /\ fobj' = [fobj EXCEPT !.fail = "-o" \notin argv]
    /\ pc' = "read"
    /\ UNCHANGED <<config, argv, smap, replay, ghost, diameter, diamaccess,
                   history, i, query, totals, searchCalls, report>>

(***************************************************************************)
(* Lines 103-115: one iteration of the loading loop.  nodeid is read and   *)
(* eof() tested (with late: tested after objid is read as well); objid is  *)
(* read; the node is fetched and the object added.  Fetching a node the    *)
(* graph does not have fails.  The page reads of getNode are left out.     *)
(***************************************************************************)
ReadLoop(late) ==
    /\ pc = "read"
    /\ \E a \in Extract(fobj) :
         IF a.f.eof /\ ~late
         THEN /\ fobj' = a.f
              /\ pc' = "diameter"
              /\ smap' = smap
         ELSE \E b \in Extract(a.f) :
                /\ fobj' = b.f
                /\ IF late /\ b.f.eof
                   THEN pc' = "diameter" /\ smap' = smap
                   ELSE IF a.val \in GraphNodeIds
                   THEN /\ smap' = AddObject(smap, b.val, a.val,
                                             NodeX(a.val), NodeY(a.val))
                        /\ pc' = pc
                   ELSE /\ pc' = "crashed"
                        /\ smap' = smap
    /\ UNCHANGED <<config, argv, replay, ghost, diameter, diamaccess,
                   history, i, query, totals, searchCalls, report>>

\* the end of the file tested after the whole record is read
ReadRecordLate == ReadLoop(TRUE)

ReadRecord == ReadLoop(FALSE)

(***************************************************************************)
(* Initial state: the arguments are parsed (lines 74-80), the graph index  *)
(* is open (lines 86-88), the totals are zero (lines 125-134).             *)
(***************************************************************************)
Init ==
    /\ pc = "load"
    /\ numquery \in NumQueries
    /\ numsrc \in NumSrcs
    /\ nodecnt \in NodeCnts
    /\ verbose \in BOOLEAN
    /\ range \in Ranges
    /\ diameter = 0
    /\ diamaccess = <<0, 0>>
    /\ history = <<>>
    /\ i = 0
    /\ j = 0
    /\ draws = 0
    /\ src = <<>>
    /\ rng = <<>>
    /\ result = 0
    /\ nodeaccess = 0
    /\ edgeaccess = 0
    /\ rescnt = 0
    /\ lru = NoLru
    /\ totals = ZeroTotals
    /\ searchCalls = 0
    /\ report = NoReport
    /\ lastpos = NoPages
    /\ caches = <<>>
    /\ refhits = <<>>
    /\ touched = <<>>
    /\ expected = ZeroTotals
    /\ passes = 0
    /\ argv = AllFlags
    /\ fobj = NoStream
    /\ smap = <<>>

(***************************************************************************)
(* Lines 98-115: object loading.  graph.getNode reads pages of the graph   *)
(* store, which records every page it reads in the history.                *)
(***************************************************************************)
LoadObjects ==
    /\ pc = "load"
    /\ \E t \in {<<>>, <<1>>} : history' = history \o t
    /\ pc' = "diameter"
    /\ UNCHANGED <<config, startup, replay, ghost, diameter, diamaccess, i,
                   query, totals, searchCalls, report>>

(***************************************************************************)
(* Lines 140-145: the diameter is computed once; its access counts go to   *)
(* the nodeaccess and edgeaccess of the outer scope, its page reads to the *)
(* history.                                                                *)
(***************************************************************************)
Diameter ==
    /\ pc = "diameter"
    /\ diameter' \in Diameters
    /\ diamaccess' = <<1, 1>>
    /\ history' = Append(history, 1)
    /\ i' = 0
    /\ pc' = "loop"
    /\ UNCHANGED <<config, startup, replay, ghost, query, totals, searchCalls,
                   report>>

(***************************************************************************)
(* Line 147: the loop test.                                                *)
(***************************************************************************)
LoopTest ==
    /\ pc = "loop"
    /\ pc' = IF i < numquery THEN "reset" ELSE "report"
    /\ UNCHANGED <<config, startup, replay, ghost, diameter, diamaccess,
                   history, i, query, totals, searchCalls, report>>

(***************************************************************************)
(* Lines 149-160 (RESET): the locals of the iteration are fresh and the    *)
(* history is cleaned.                                                     *)
(***************************************************************************)
\* the reset without segmem.m_history.clean()
ResetNoClean ==
    /\ pc = "reset"
    /\ result' = 0
    /\ nodeaccess' = 0
    /\ edgeaccess' = 0
    /\ rescnt' = 0
    /\ touched' = <<>>
    /\ passes' = 0
    /\ src' = <<>>
    /\ rng' = <<>>
    /\ j' = 0
    /\ draws' = 0
    /\ pc' = "generate"
    /\ UNCHANGED <<config, startup, replay, expected, diameter, diamaccess,
                   history, i, lru, totals, searchCalls, report>>

Reset ==
    /\ pc = "reset"
    /\ result' = 0
    /\ nodeaccess' = 0
    /\ edgeaccess' = 0
    /\ rescnt' = 0
    /\ touched' = <<>>
    /\ passes' = 0
    /\ history' = <<>>
    /\ src' = <<>>
    /\ rng' = <<>>
    /\ j' = 0
    /\ draws' = 0
    /\ pc' = "generate"
    /\ UNCHANGED <<config, startup, replay, expected, diameter, diamaccess, i,
                   lru, totals, searchCalls, report>>

(***************************************************************************)
(* Lines 161-165 (GENERATE): one draw of the while of line 163.  A         *)
(* rejected draw is repeated.  An accepted draw is left in src[j], rng[j]  *)
(* is set and j advances.  src and rng hold MAXQUERY entries: for          *)
(* j >= MAXQUERY the two writes fall outside the arrays, which is          *)
(* undefined: the process is killed, or the writes land in memory the      *)
(* model does not hold and the run goes on.                                *)
(***************************************************************************)
GenDraw ==
    /\ pc = "generate"
    /\ j < numsrc
    /\ \E k \in 0..(RandMod - 1) :
         LET v == Draw(k, nodecnt)
         IN  IF Rejected(v, nodecnt)
             THEN /\ draws' = Min(draws + 1, DrawCap)
                  /\ UNCHANGED <<pc, j, src, rng>>
             ELSE IF j < MAXQUERY
             THEN /\ src' = Append(src, v)
                  /\ rng' = Append(rng, range * diameter)
                  /\ j' = j + 1
                  /\ draws' = 0
                  /\ pc' = pc
             ELSE \/ /\ pc' = "crashed"
                     /\ UNCHANGED <<j, draws, src, rng>>
                  \/ /\ j' = j + 1
                     /\ draws' = 0
                     /\ UNCHANGED <<pc, src, rng>>
    /\ UNCHANGED <<config, startup, replay, ghost, diameter, diamaccess,
                   history, i, result, nodeaccess, edgeaccess, rescnt, lru,
                   totals, searchCalls, report>>

\* line 161: j = numsrc ends the loop
GenDone ==
    /\ pc = "generate"
    /\ j >= numsrc
    /\ pc' = "execute"
    /\ UNCHANGED <<config, startup, replay, ghost, diameter, diamaccess,
                   history, i, query, totals, searchCalls, report>>

(***************************************************************************)
(* Lines 170-176 (EXECUTE): groupRangeSearch reads numsrc entries of src   *)
(* and rng, records the pages it touches in the history, fills result and  *)
(* counts its node and edge accesses in the counters it is handed.  For    *)
(* numsrc > MAXQUERY it reads past the arrays: killed, or it goes on.      *)
(***************************************************************************)
Execute ==
    /\ pc = "execute"
    /\ searchCalls' = searchCalls + 1
    /\ \/ /\ numsrc > MAXQUERY
          /\ pc' = "crashed"
          /\ UNCHANGED <<history, result, nodeaccess, edgeaccess, ghost>>
       \/ /\ \E o \in SearchOutcomes :
                /\ history' = history \o o.touched
                /\ result' = o.results
                /\ nodeaccess' = nodeaccess + o.nodes
                /\ edgeaccess' = edgeaccess + o.edges
                /\ touched' = o.touched
                /\ passes' = passes
                /\ expected' =
                     [res |-> expected.res + o.results,
                      node |-> expected.node + o.nodes,
                      edge |-> expected.edge + o.edges,
                      lru |-> [c \in Capacities |->
                                 expected.lru[c] + pagelru(o.touched, c)]]
          /\ pc' = IF verbose THEN "debug" ELSE "cleanup"
    /\ UNCHANGED <<config, startup, replay, diameter, diamaccess, i, j, draws,
                   src, rng, rescnt, lru, totals, report>>

(***************************************************************************)
(* Lines 181-191: verbose printing; its loop counter is a variable of its  *)
(* own block.                                                              *)
(***************************************************************************)
\* the printing loop counting on the query loop's i instead
DebugOuterI ==
    /\ pc = "debug"
    /\ i' = result
    /\ pc' = "cleanup"
    /\ UNCHANGED <<config, startup, replay, ghost, diameter, diamaccess,
                   history, query, totals, searchCalls, report>>

Debug ==
    /\ pc = "debug"
    /\ pc' = "cleanup"
    /\ UNCHANGED <<config, startup, replay, ghost, diameter, diamaccess,
                   history, i, query, totals, searchCalls, report>>

(***************************************************************************)
(* Lines 196-201: every result entry is counted and deleted.               *)
(***************************************************************************)
Cleanup ==
    /\ pc = "cleanup"
    /\ rescnt' = rescnt + result
    /\ result' = 0
    /\ pc' = "measure"
    /\ UNCHANGED <<config, startup, replay, ghost, diameter, diamaccess,
                   history, i, j, draws, src, rng, nodeaccess, edgeaccess,
                   lru, totals, searchCalls, report>>

(***************************************************************************)
(* Lines 206-211 (MEASURE): pagelru is called once per capacity, each call *)
(* reading the whole history.                                              *)
(***************************************************************************)
Measure ==
    /\ pc = "measure"
    /\ lru' = [c \in Capacities |-> pagelru(history, c)]
    /\ passes' = passes + Cardinality(Capacities)
    /\ pc' = "aggregate"
    /\ UNCHANGED <<config, startup, replay, touched, expected, diameter,
                   diamaccess, history, i, j, draws, src, rng, result,
                   nodeaccess, edgeaccess, rescnt, totals, searchCalls,
                   report>>

(***************************************************************************)
(* Lines 213-223 (AGGREGATE) and the i++ of line 147.                      *)
(***************************************************************************)
\* the access counters of the outer scope (the diameter's) added as well
AggregateOuter ==
    /\ pc = "aggregate"
    /\ totals' = [res |-> totals.res + rescnt,
                  node |-> totals.node + nodeaccess + diamaccess[1],
                  edge |-> totals.edge + edgeaccess + diamaccess[2],
                  lru |-> [c \in Capacities |-> totals.lru[c] + lru[c]]]
    /\ i' = i + 1
    /\ pc' = "loop"
    /\ UNCHANGED <<config, startup, replay, ghost, diameter, diamaccess,
                   history, query, searchCalls, report>>

Aggregate ==
    /\ pc = "aggregate"
    /\ totals' = [res |-> totals.res + rescnt,
                  node |-> totals.node + nodeaccess,
                  edge |-> totals.edge + edgeaccess,
                  lru |-> [c \in Capacities |-> totals.lru[c] + lru[c]]]
    /\ i' = i + 1
    /\ pc' = "loop"
    /\ UNCHANGED <<config, startup, replay, ghost, diameter, diamaccess,
                   history, query, searchCalls, report>>

(***************************************************************************)
(* Lines 229-248: the report.  The divisions are unconditional.  Elapsed   *)
(* times are not modelled: the qtime average is 0 for numquery # 0.  With  *)
(* numquery = 0 the four float divisions give NaN, and the integer         *)
(* division of line 237 is undefined: it traps (the process is killed      *)
(* with the line unfinished) or leaves some value.                         *)
(***************************************************************************)
Report ==
    /\ pc = "report"
    /\ \/ /\ numquery # 0
          /\ report' = [qtime |-> Num(0, 0),
                        res |-> FloatAvg(totals.res, numquery),
                        node |-> FloatAvg(totals.node, numquery),
                        edge |-> FloatAvg(totals.edge, numquery),
                        lru |-> [c \in Capacities |->
                                    IntAvg(totals.lru[c], numquery)]]
          /\ pc' = "done"
       \/ /\ numquery = 0
          /\ report' = [qtime |-> NaN,
                        res |-> FloatAvg(totals.res, numquery),
                        node |-> FloatAvg(totals.node, numquery),
                        edge |-> FloatAvg(totals.edge, numquery),
                        lru |-> [c \in Capacities |-> Unset]]
          /\ pc' = "crashed"
       \/ /\ numquery = 0
          /\ report' = [qtime |-> NaN,
                        res |-> FloatAvg(totals.res, numquery),
                        node |-> FloatAvg(totals.node, numquery),
                        edge |-> FloatAvg(totals.edge, numquery),
                        lru |-> [c \in Capacities |->
                                    IntAvg(totals.lru[c], numquery)]]
          /\ pc' = "done"
    /\ UNCHANGED <<config, startup, replay, ghost, diameter, diamaccess,
                   history, i, query, totals, searchCalls>>

Next ==
    \/ LoadObjects
    \/ Diameter
    \/ LoopTest
    \/ Reset
    \/ GenDraw
    \/ GenDone
    \/ Execute
    \/ Debug
    \/ Cleanup
    \/ Measure
    \/ Aggregate
    \/ Report

Spec == Init /\ [][Next]_vars

\* the program runs while it can: it is never suspended for ever
SpecFair == Spec /\ WF_vars(Next)

(***************************************************************************)
(* The estimator on its own: a trace is built one reference at a time and  *)
(* read in one pass, next to explicit LRU caches replaying the same        *)
(* references.  Two families of traces: every trace over Pages up to       *)
(* SmallLen references ("small"), and traces over up to MaxPages pages     *)
(* that re-reference a page at a stack depth next to a capacity ("deep").  *)
(***************************************************************************)
TraceCaps == Capacities \cup Pages

ReuseDepths == Capacities \cup {c - 1 : c \in Capacities}

\* the page that has exactly d pages referenced after its latest occurrence
PageAtDepth(d) ==
    CHOOSE q \in DOMAIN lastpos : StackDistance(lastpos, q) = d

InitLRU ==
    /\ pc \in {"small", "deep"}
    /\ numquery = 0
    /\ numsrc = 0
    /\ nodecnt = 0
    /\ verbose = FALSE
    /\ range = 0
    /\ diameter = 0
    /\ diamaccess = <<0, 0>>
    /\ history = <<>>
    /\ i = 0
    /\ j = 0
    /\ draws = 0
    /\ src = <<>>
    /\ rng = <<>>
    /\ result = 0
    /\ nodeaccess = 0
    /\ edgeaccess = 0
    /\ rescnt = 0
    /\ lru = [c \in TraceCaps |-> 0]
    /\ totals = ZeroTotals
    /\ searchCalls = 0
    /\ report = NoReport
    /\ lastpos = NoPages
    /\ caches = [c \in TraceCaps |-> <<>>]
    /\ refhits = [c \in TraceCaps |-> 0]
    /\ touched = <<>>
    /\ expected = ZeroTotals
    /\ passes = 0
    /\ argv = AllFlags
    /\ fobj = NoStream
    /\ smap = <<>>

\* one more reference, to page p: the estimator's step and the caches' step
Touch(p) ==
    /\ history' = Append(history, p)
    /\ lru' = [c \in TraceCaps |->
                 lru[c] + (IF IsHit(lastpos, p, c) THEN 1 ELSE 0)]
    /\ lastpos' = Record(lastpos, p, Len(history) + 1)
    /\ refhits' = [c \in TraceCaps |->
                     refhits[c] + (IF InCache(caches[c], p) THEN 1 ELSE 0)]
    /\ caches' = [c \in TraceCaps |-> LRUTouch(caches[c], p, c)]
    /\ UNCHANGED <<pc, config, startup, ghost, diameter, diamaccess, i, j,
                   draws, src, rng, result, nodeaccess, edgeaccess, rescnt,
                   totals, searchCalls, report>>

TouchSmall ==
    /\ pc = "small"
    /\ Len(history) < SmallLen
    /\ \E p \in Pages : Touch(p)

TouchNew ==
    /\ pc = "deep"
    /\ Cardinality(DOMAIN lastpos) < MaxPages
    /\ Touch(Cardinality(DOMAIN lastpos) + 1)

TouchAgain ==
    /\ pc = "deep"
    /\ Len(history) - Cardinality(DOMAIN lastpos) < MaxReuse
    /\ \E d \in ReuseDepths :
         /\ d < Cardinality(DOMAIN lastpos)
         /\ Touch(PageAtDepth(d))

NextLRU == TouchSmall \/ TouchNew \/ TouchAgain

SpecLRU == InitLRU /\ [][NextLRU]_vars

(***************************************************************************)
(* The source generation of lines 161-165 on its own, as a function of     *)
(* the node count and the source count it is given: any int, negative      *)
(* ones included.                                                          *)
(***************************************************************************)
InitGen ==
    /\ pc = "generate"
    /\ numquery = 1
    /\ numsrc \in NumSrcs
    /\ nodecnt \in AnyNodeCnts
    /\ verbose = FALSE
    /\ range \in Ranges
    /\ diameter \in Diameters
    /\ diamaccess = <<1, 1>>
    /\ history = <<>>
    /\ i = 0
    /\ j = 0
    /\ draws = 0
    /\ src = <<>>
    /\ rng = <<>>
    /\ result = 0
    /\ nodeaccess = 0
    /\ edgeaccess = 0
    /\ rescnt = 0
    /\ lru = NoLru
    /\ totals = ZeroTotals
    /\ searchCalls = 0
    /\ report = NoReport
    /\ lastpos = NoPages
    /\ caches = <<>>
    /\ refhits = <<>>
    /\ touched = <<>>
    /\ expected = ZeroTotals
    /\ passes = 0
    /\ argv = AllFlags
    /\ fobj = NoStream
    /\ smap = <<>>

NextGen == GenDraw \/ GenDone

SpecGen == InitGen /\ [][NextGen]_vars

(***************************************************************************)
(* The start of main() on its own, lines 64-115: the arguments, the graph  *)
(* index, the object file.  It ends where the search part begins.          *)
(***************************************************************************)
InitLoad ==
    /\ pc = "start"
    /\ numquery = 0
    /\ numsrc = 0
    /\ nodecnt = 0
    /\ verbose = FALSE
    /\ range = 0
    /\ diameter = 0
    /\ diamaccess = <<0, 0>>
    /\ history = <<>>
    /\ i = 0
    /\ j = 0
    /\ draws = 0
    /\ src = <<>>
    /\ rng = <<>>
    /\ result = 0
    /\ nodeaccess = 0
    /\ edgeaccess = 0
    /\ rescnt = 0
    /\ lru = NoLru
    /\ totals = ZeroTotals
    /\ searchCalls = 0
    /\ report = NoReport
    /\ lastpos = NoPages
    /\ caches = <<>>
    /\ refhits = <<>>
    /\ touched = <<>>
    /\ expected = ZeroTotals
    /\ passes = 0
    /\ argv \in Argvs
    /\ \E file \in Files : fobj = Stream(file)
    /\ smap = <<>>

NextLoad == ParseArgs \/ OpenIndex \/ OpenObjects \/ ReadRecord

SpecLoad == InitLoad /\ [][NextLoad]_vars

\* the same program, never suspended for ever
SpecLoadFair == SpecLoad /\ WF_vars(NextLoad)

(***************************************************************************)
(* One source draw (line 163) for node counts around and above the number  *)
(* of values rand()%1000 takes.                                            *)
(***************************************************************************)
LargeNodeCnts == {1, 999, 1001, 2000}

InitDraw ==
    /\ pc = "generate"
    /\ numquery = 1
    /\ numsrc = 1
    /\ nodecnt \in LargeNodeCnts
    /\ verbose = FALSE
    /\ range \in Ranges
    /\ diameter \in Diameters
    /\ diamaccess = <<0, 0>>
    /\ history = <<>>
    /\ i = 0
    /\ j = 0
    /\ draws = 0
    /\ src = <<>>
    /\ rng = <<>>
    /\ result = 0
    /\ nodeaccess = 0
    /\ edgeaccess = 0
    /\ rescnt = 0
    /\ lru = NoLru
    /\ totals = ZeroTotals
    /\ searchCalls = 0
    /\ report = NoReport
    /\ lastpos = NoPages
    /\ caches = <<>>
    /\ refhits = <<>>
    /\ touched = <<>>
    /\ expected = ZeroTotals
    /\ passes = 0
    /\ argv = AllFlags
    /\ fobj = NoStream
    /\ smap = <<>>

NextDraw == GenDraw \/ GenDone

SpecDraw == InitDraw /\ [][NextDraw]_vars

(***************************************************************************)
(*                              Properties                                 *)
(***************************************************************************)
ZeroReport ==
    [qtime |-> Num(0, 0), res |-> Num(0, 0), node |-> Num(0, 0),
     edge |-> Num(0, 0), lru |-> [c \in Capacities |-> Num(0, 0)]]

\* C1: with numquery = 0 the run ends normally and every averaged field of
\* the report is zero: no division by zero, no crash, no undefined value.
C1_ZeroQueryReport ==
    numquery = 0 =>
        /\ pc # "crashed"
        /\ pc = "done" => report = ZeroReport

\* C2: every source id accepted and handed to the search lies in
\* [0, nodecnt); a draw equal to nodecnt is never accepted.
C2_SourcesInRange ==
    pc = "execute" =>
        \A k \in 1..Len(src) : 0 <= src[k] /\ src[k] < nodecnt

\* C3: for every trace and every capacity of {1,10,20,30,40,50} the hit
\* count of the stack-distance estimator equals the number of hits of an
\* explicit LRU cache of that capacity replaying the same trace.
C3_EstimatorEqualsReplay ==
    \A c \in Capacities : lru[c] = refhits[c]

\* a trace whose one re-reference hits at capacity 50 and misses at 40
C3_Witness ==
    /\ pc = "deep"
    /\ lru[40] = 0
    /\ lru[50] = 1
    /\ refhits[1] = 0

ABACAB == <<1, 2, 1, 3, 1, 2>>

\* C4 as stated: for the trace A B A C A B the hit count is 0 at capacity 1
\* and exactly 1 at capacity 2.
C4_Original ==
    history = ABACAB => lru[1] = 0 /\ lru[2] = 1

\* C4 amended: for the trace A B A C A B the hit count is 0 at capacity 1
\* and exactly 2 at capacity 2: the second A is a hit, the third A is a hit
\* (the only page referenced since the second A is C), the second B is a
\* miss; an explicit LRU cache of capacity 2 hits twice as well.
C4_HitsOfABACAB ==
    history = ABACAB =>
        /\ lru[1] = 0
        /\ lru[2] = 2
        /\ refhits[2] = 2
        /\ IsHit(LastAfter(history, 2), history[3], 2)
        /\ IsHit(LastAfter(history, 4), history[5], 2)
        /\ ~IsHit(LastAfter(history, 5), history[6], 2)

C4_Witness ==
    pc = "small" /\ history = ABACAB

\* C5: when a query's search is invoked the access history is empty, and
\* the history the estimator reads holds exactly the pages that query's
\* search touched: none from loading, the diameter or an earlier query.
C5_TraceOfThisQuery ==
    /\ pc = "execute" => history = <<>>
    /\ pc \in {"debug", "cleanup", "measure"} => history = touched

\* the second query is measured, the first one had touched pages 1, 2, 1
C5_Witness ==
    /\ pc = "measure"
    /\ i = 1
    /\ totals.lru[10] = 1
    /\ history = <<1, 1>>

StepOrder ==
    {<<"load", "diameter">>, <<"diameter", "loop">>, <<"loop", "reset">>,
     <<"loop", "report">>, <<"reset", "generate">>,
     <<"generate", "execute">>, <<"execute", "debug">>,
     <<"execute", "cleanup">>, <<"debug", "cleanup">>,
     <<"cleanup", "measure">>, <<"measure", "aggregate">>,
     <<"aggregate", "loop">>, <<"report", "done">>}

\* C6: every query goes through RESET, GENERATE, EXECUTE, MEASURE, AGGREGATE
\* in that order, the search is invoked once per query, and the run reaches
\* the report step after the last iteration with numquery invocations made.
C6_CycleAndTermination ==
    /\ [][pc' \notin {pc, "crashed"} => <<pc, pc'>> \in StepOrder]_vars
    /\ [][searchCalls' # searchCalls =>
            pc = "execute" /\ searchCalls = i /\ searchCalls' = i + 1]_vars
    /\ <>(pc = "report" /\ i = numquery /\ searchCalls = numquery)

\* C7: with nodecnt <= 0 source generation fails and the search is never
\* invoked with sources drawn from such a node count.
C7_NoSearchOnEmptyGraph ==
    (pc = "execute" /\ numsrc > 0) => nodecnt > 0

C9_SourceIndexInBounds ==
    /\ pc \notin {"load", "diameter", "loop", "report", "done"} =>
           numsrc <= MAXQUERY
    /\ (pc = "generate" /\ j < numsrc) => j < MAXQUERY

\* C10: after any number of completed queries every running total is the
\* sum of what the searches of these queries returned (result entries, node
\* and edge accesses) and of the hit counts of the pages each one touched;
\* nothing else, such as the diameter's access counts, is counted.
C10_TotalsAreSums ==
    pc \in {"loop", "report", "done"} => totals = expected

\* two queries completed, with different returns
C10_Witness ==
    /\ pc = "loop"
    /\ i = 2
    /\ totals.res = 3
    /\ totals.node = 3
    /\ totals.edge = 3
    /\ totals.lru[1] = 1
    /\ totals.lru[10] = 2

\* C11: for numquery > 0 every average of the report (result count, node
\* access, edge access, hit count of each capacity) is its total divided by
\* numquery with the fractional part kept; the hit-count averages are
\* computed the way the result-count and access averages are.
C11_AveragesKeepFraction ==
    (pc = "done" /\ numquery > 0) =>
        /\ report.res = FloatAvg(totals.res, numquery)
        /\ report.node = FloatAvg(totals.node, numquery)
        /\ report.edge = FloatAvg(totals.edge, numquery)
        /\ \A c \in Capacities :
             report.lru[c] = FloatAvg(totals.lru[c], numquery)

\* the file as the open stream holds it
FileIsOpen == AllFlags \subseteq argv

IsPrefix(s, t) == Len(s) <= Len(t) /\ \A k \in 1..Len(s) : s[k] = t[k]

\* the first n tokens are integers, the node ids among them are the graph's
GoodTokens(toks, n) ==
    \A k \in 1..n :
        /\ toks[k].num
        /\ k % 2 = 1 => toks[k].val \in GraphNodeIds

\* the entries of the first n complete (nodeid, objid) pairs, in file order
RecordsOf(toks, n) ==
    [k \in 1..n |->
        [oid |-> toks[2 * k].val, nid |-> toks[2 * k - 1].val,
         x |-> NodeX(toks[2 * k - 1].val), y |-> NodeY(toks[2 * k - 1].val)]]

\* complete pairs followed by one node id that has no object id
PartialTail(toks) == Len(toks) % 2 = 1 /\ GoodTokens(toks, Len(toks))

WellFormed(toks) == Len(toks) % 2 = 0 /\ GoodTokens(toks, Len(toks))

Malformed(toks) == \E k \in 1..Len(toks) : ~toks[k].num

\* the number of complete pairs in front of the first token that is no
\* integer
PairsBeforeBad(toks) ==
    (CHOOSE k \in 1..Len(toks) :
        ~toks[k].num /\ \A m \in 1..(k - 1) : toks[m].num) \div 2

\* C12: when the object file ends with a node id that has no object id,
\* with or without trailing whitespace, loading fails: it does not go on to
\* the search part with the partial record dropped, and nothing but the
\* complete records is ever in the spatial index.
C12_PartialTailFails ==
    (FileIsOpen /\ PartialTail(fobj.tokens)) =>
        /\ pc # "diameter"
        /\ IsPrefix(smap, RecordsOf(fobj.tokens, Len(fobj.tokens) \div 2))

\* C13: when -i or -o is missing from the command line, other flags present
\* or not, the program prints the usage message and exits: it does not go
\* on to open the index or the object file, loads nothing, runs no query.
C13_MissingFlagUsage ==
    ("-i" \notin argv \/ "-o" \notin argv) =>
        /\ pc \in {"start", "usage"}
        /\ smap = <<>>

\* C14: loading ends on every finite object file, and when a token is no
\* integer it ends in failure: the search part is not reached and nothing
\* but the records in front of the bad token is ever in the spatial index.
C14_LoadingTerminates ==
    /\ FileIsOpen => <>(pc \in {"diameter", "failed", "crashed"})
    /\ []((FileIsOpen /\ Malformed(fobj.tokens)) =>
            /\ pc # "diameter"
            /\ IsPrefix(smap, RecordsOf(fobj.tokens,
                                        PairsBeforeBad(fobj.tokens))))

\* C15: for every trace and every capacity that is at least the number of
\* distinct pages of the trace, the hit count is the length of the trace
\* minus its number of distinct pages; for the empty trace it is 0 at every
\* capacity.
C15_Saturation ==
    /\ \A c \in TraceCaps :
         c >= Cardinality(DOMAIN lastpos) =>
             lru[c] = Len(history) - Cardinality(DOMAIN lastpos)
    /\ history = <<>> => \A c \in TraceCaps : lru[c] = 0

\* six references to three pages read at capacity 3, and 50
C15_Witness ==
    /\ pc = "small"
    /\ Len(history) = SmallLen
    /\ Cardinality(DOMAIN lastpos) = 3
    /\ lru[3] = SmallLen - 3
    /\ lru[50] = SmallLen - 3
    /\ lru[1] < SmallLen - 3

\* C16: the source set handed to the search has exactly numsrc entries, and
\* every entry carries the range range * diameter, the diameter being the
\* one computed before the first query and never changed afterwards.
C16_SourceSetShape ==
    /\ [][pc # "diameter" => diameter' = diameter]_vars
    /\ [](pc = "execute" =>
            /\ Len(src) = numsrc
            /\ Len(rng) = numsrc
            /\ \A k \in 1..Len(rng) : rng[k] = range * diameter)

\* C17: loading a well-formed object file of n complete pairs, with or
\* without whitespace after the last one, node ids repeated or not, enters
\* exactly the n records in file order, each with the coordinates of its
\* node; while it loads the index holds the records read so far; an empty
\* file enters none.
C17_LoadsEveryRecord ==
    (FileIsOpen /\ WellFormed(fobj.tokens)) =>
        LET recs == RecordsOf(fobj.tokens, Len(fobj.tokens) \div 2)
        IN  /\ pc \notin {"failed", "crashed"}
            /\ pc = "read" => smap = SubSeq(recs, 1, fobj.pos \div 2)
            /\ pc = "diameter" => smap = recs

\* two records on the same node, no newline after the last one
C17_Witness ==
    /\ pc = "diameter"
    /\ ~fobj.trailing
    /\ Len(smap) = 2
    /\ smap[1] = [oid |-> 101, nid |-> 3, x |-> NodeX(3), y |-> NodeY(3)]
    /\ smap[2] = [oid |-> 7, nid |-> 3, x |-> NodeX(3), y |-> NodeY(3)]

\* C18: in the MEASURE step of a query the hit counts of all capacities
\* come from one pass of the estimator over the trace: the number of
\* estimator passes of a query is 1, however many capacities there are.
C18_OnePassPerQuery ==
    pc = "aggregate" => passes = 1

\* C19: for every nodecnt >= 1, node counts above 1000 included, every node
\* id of [0, nodecnt) is a possible outcome of the source draw.
C19_EveryNodeDrawable ==
    (pc = "generate" /\ j = 0 /\ nodecnt >= 1) =>
        \A id \in 0..(nodecnt - 1) :
            \E k \in 0..(RandMod - 1) :
                Draw(k, nodecnt) = id /\ ~Rejected(Draw(k, nodecnt), nodecnt)

\* C20: the verbose flag affects diagnostic output only.  The flag never
\* changes; it decides nothing but whether the printing step is taken
\* between the search and the clean-up; the printing step changes nothing
\* (so a run with it and a run without it, on the same draws and the same
\* search outcomes, go through the same queries with the same source sets,
\* totals and report); neither the printing nor the clean-up changes the
\* query loop's counter.
C20_VerboseOnlyPrints ==
    [][/\ verbose' = verbose
       /\ pc' = "debug" => (pc = "execute" /\ verbose)
       /\ (pc = "execute" /\ pc' = "cleanup") => ~verbose
       /\ pc = "debug" =>
            /\ pc' = "cleanup"
            /\ UNCHANGED <<config, startup, replay, ghost, diameter,
                           diamaccess, history, i, query, totals,
                           searchCalls, report>>
       /\ pc \in {"debug", "cleanup"} => i' = i]_vars

\* the second query of a verbose run after its printing step, two results
\* to clean up
C20_Witness ==
    /\ verbose
    /\ pc = "cleanup"
    /\ i = 1
    /\ result = 2
    /\ totals.res = 1

============================================================================
